---- MODULE Spec2Model ----
(***************************************************************************)
(* A model of src/psets.py: the functions that flatten the property sets,  *)
(* quantity sets and type definitions of an IFC element into dictionaries. *)
(*                                                                         *)
(* Python objects are encoded uniformly so that TLC can compare them:      *)
(* None is the empty tuple and any other object o is the 1-tuple <<o>>.    *)
(* Scalars (numbers, labels) are opaque payload to the code and are        *)
(* written as strings ("5", "12.5").  A dictionary is a TLA+ function; a   *)
(* key is either a Python pair (Name, Name), i.e. a 2-tuple of objects, or *)
(* a Python string, i.e. one object.                                       *)
(***************************************************************************)
EXTENDS Integers, Sequences, FiniteSets, TLC

\* kind, x: the argument the functions are called with (an element, or one
\*          property definition handed to a flattener) and its kind;
\* fn, out: the function called last and how that call ended;
\* returned: for each get_all_* function, how its latest call ended;
\* again: whether the last call repeated a get_all_* call made before.
VARIABLES kind, x, fn, out, returned, again

vars == <<kind, x, fn, out, returned, again>>

(* ------------------------------ bounds -------------------------------- *)

MaxProps == 2

MaxNested == 1

MaxQuantities == 2

MaxPsets == 3

MaxRels == 2

(* --------------------------- Python objects --------------------------- *)

None == <<>>

Some(v) == <<v>>

NoExc == "none"

EmptyDict == [k \in {} |-> None]

\* dict.update({k: v})
Update(d, k, v) == [kk \in DOMAIN d \cup {k} |-> IF kk = k THEN v ELSE d[kk]]

\* dict.update(e)
DictUpdate(d, e) ==
    [k \in DOMAIN d \cup DOMAIN e |-> IF k \in DOMAIN e THEN e[k] ELSE d[k]]

\* How a call ends: the exception that left it (NoExc: none), the value
\* returned and the lines it printed.
Return(v) == [exc |-> NoExc, ret |-> v, printed |-> <<>>]

Raise(st) == [exc |-> st.exc, ret |-> EmptyDict, printed |-> st.printed]

SeqsUpTo(S, n) == UNION {[1..m -> S] : m \in 0..n}

(* ------------------------ the document model -------------------------- *)

\* entity.is_a(tag)
is_a(e, tag) == e.type = tag

\* The attributes an entity of each type exposes; reading any other one
\* raises AttributeError.
Attributes(type) ==
    CASE type = "IfcPropertySingleValue" -> {"Name", "NominalValue"}
      [] type = "IfcComplexProperty" -> {"Name", "HasProperties"}
      [] type = "IfcPropertyEnumeratedValue" -> {"Name"}
      [] type = "IfcPropertyBoundedValue" -> {"Name"}
      [] type = "IfcQuantityArea" -> {"Name", "AreaValue"}
      [] type = "IfcQuantityLength" -> {"Name", "LengthValue"}
      [] type = "IfcQuantityVolume" -> {"Name", "VolumeValue"}
      [] type = "IfcQuantityCount" -> {"Name", "CountValue"}
      [] type = "IfcQuantityWeight" -> {"Name", "WeightValue"}
      [] type = "IfcQuantityTime" -> {"Name", "TimeValue"}
      [] type = "IfcPropertySet" -> {"Name", "HasProperties"}
      [] type = "IfcElementQuantity" -> {"Name", "Quantities"}
      [] type = "IfcCartesianPoint" -> {"Coordinates"}
      [] OTHER -> {"Name"}

HasAttr(e, a) == a \in Attributes(e.type)

IfcValue(v) == [wrappedValue |-> v]

Scalars == {Some("3"), Some("5")}

RecNames == {Some("Bar"), Some("Sub1")}

SetNames == {None, Some("Pset_Foo")}

IfcPropertySingleValue(name, nominal) ==
    [type |-> "IfcPropertySingleValue", Name |-> name,
     NominalValue |-> nominal, HasProperties |-> <<>>]

IfcComplexProperty(name, props) ==
    [type |-> "IfcComplexProperty", Name |-> name,
     NominalValue |-> None, HasProperties |-> props]

UnsupportedProperty(type, name) ==
    [type |-> type, Name |-> name, NominalValue |-> None, HasProperties |-> <<>>]

NominalValues == {None} \cup {Some(IfcValue(s)) : s \in Scalars}

SingleValues == {IfcPropertySingleValue(n, v) : n \in RecNames, v \in NominalValues}

NestedProperties ==
    {IfcPropertySingleValue(n, v) : n \in RecNames, v \in {None, Some(IfcValue(Some("3")))}}
        \cup {UnsupportedProperty("IfcPropertyEnumeratedValue", Some("Bar"))}

Properties ==
    SingleValues
        \cup {UnsupportedProperty("IfcPropertyEnumeratedValue", Some("Bar"))}
        \cup {IfcComplexProperty(Some("Complex1"), ps) :
                ps \in SeqsUpTo(NestedProperties, MaxNested)}

IfcPropertySet(name, props) ==
    [type |-> "IfcPropertySet", Name |-> name, HasProperties |-> props]

PropertySets ==
    {IfcPropertySet(n, ps) : n \in SetNames, ps \in SeqsUpTo(Properties, MaxProps)}

(* -------------------- get_property_single_value ----------------------- *)

\* for z in y.HasProperties: ... (lines 113-115); st is the local state of
\* the call: the exception raised so far and attributes_dicts.
RECURSIVE ComplexLoop(_, _, _, _)
ComplexLoop(xx, y, j, st) ==
    IF j > Len(y.HasProperties) \/ st.exc # NoExc THEN st
    ELSE LET z == y.HasProperties[j] IN
         IF ~HasAttr(z, "NominalValue")
         THEN [st EXCEPT !.exc = "AttributeError"]
         ELSE ComplexLoop(xx, y, j + 1,
                IF z.NominalValue # None
                THEN [st EXCEPT !.ret =
                        Update(@, <<xx.Name, z.Name>>, z.NominalValue[1].wrappedValue)]
                ELSE st)

\* The body of "for y in x.HasProperties" (lines 110-115).
PropertyStep(xx, y, st) ==
    LET st1 == IF is_a(y, "IfcPropertySingleValue") /\ y.NominalValue # None
               THEN [st EXCEPT !.ret =
                       Update(@, <<xx.Name, y.Name>>, y.NominalValue[1].wrappedValue)]
               ELSE st
    IN IF is_a(y, "IfcComplexProperty") THEN ComplexLoop(xx, y, 1, st1) ELSE st1

RECURSIVE PropertyLoop(_, _, _)
PropertyLoop(xx, i, st) ==
    IF i > Len(xx.HasProperties) \/ st.exc # NoExc THEN st
    ELSE PropertyLoop(xx, i + 1, PropertyStep(xx, xx.HasProperties[i], st))

get_property_single_value(xx) ==
    LET st == PropertyLoop(xx, 1, Return(EmptyDict))
    IN IF st.exc # NoExc THEN Raise(st) ELSE st

(* -------------------- get_quantity_single_value ----------------------- *)

QuantityTags ==
    {"IfcQuantityArea", "IfcQuantityLength", "IfcQuantityVolume",
     "IfcQuantityCount", "IfcQuantityWeight"}

AllQuantityTags == QuantityTags \cup {"IfcQuantityTime"}

\* The one value attribute a physical quantity of each type carries.
ValueAttribute(type) ==
    CHOOSE a \in Attributes(type) : a # "Name"

\* A quantity record exposes Name and its own value attribute only.
IfcPhysicalQuantity(type, name, value) ==
    [type |-> type, Name |-> name, attrs |-> (ValueAttribute(type) :> value)]

QuantityNames == {Some("NetArea"), Some("Count")}

QuantityValues == {None, Some("12.5"), Some("2")}

Quantities ==
    {IfcPhysicalQuantity(t, n, v) :
        t \in AllQuantityTags, n \in QuantityNames, v \in QuantityValues}

IfcElementQuantity(name, qs) ==
    [type |-> "IfcElementQuantity", Name |-> name, Quantities |-> qs]

ElementQuantities ==
    {IfcElementQuantity(Some("BaseQuantities"), qs) :
        qs \in SeqsUpTo(Quantities, MaxQuantities)}

\* if y.is_a(tag): quantities_dicts.update({(x.Name,y.Name): y.<field>})
QuantityBranch(xx, y, st, tag, field) ==
    IF st.exc # NoExc \/ ~is_a(y, tag) THEN st
    ELSE IF field \notin DOMAIN y.attrs
         THEN [st EXCEPT !.exc = "AttributeError"]
         ELSE [st EXCEPT !.ret = Update(@, <<xx.Name, y.Name>>, y.attrs[field])]

\* The loop body with the count branch reading the area field.
QuantityStepCountReadsArea(xx, y, st) ==
    LET s1 == QuantityBranch(xx, y, st, "IfcQuantityArea", "AreaValue")
        s2 == QuantityBranch(xx, y, s1, "IfcQuantityLength", "LengthValue")
        s3 == QuantityBranch(xx, y, s2, "IfcQuantityVolume", "VolumeValue")
        s4 == QuantityBranch(xx, y, s3, "IfcQuantityCount", "AreaValue")
    IN QuantityBranch(xx, y, s4, "IfcQuantityWeight", "WeightValue")

\* The body of "for y in x.Quantities" (lines 156-165): five ifs in a row.
QuantityStep(xx, y, st) ==
    LET s1 == QuantityBranch(xx, y, st, "IfcQuantityArea", "AreaValue")
        s2 == QuantityBranch(xx, y, s1, "IfcQuantityLength", "LengthValue")
        s3 == QuantityBranch(xx, y, s2, "IfcQuantityVolume", "VolumeValue")
        s4 == QuantityBranch(xx, y, s3, "IfcQuantityCount", "CountValue")
    IN QuantityBranch(xx, y, s4, "IfcQuantityWeight", "WeightValue")

RECURSIVE QuantityLoop(_, _, _)
QuantityLoop(xx, i, st) ==
    IF i > Len(xx.Quantities) \/ st.exc # NoExc THEN st
    ELSE QuantityLoop(xx, i + 1, QuantityStep(xx, xx.Quantities[i], st))

get_quantity_single_value(xx) ==
    LET st == QuantityLoop(xx, 1, Return(EmptyDict))
    IN IF st.exc # NoExc THEN Raise(st) ELSE st

(* ----------------------- get_type_single_value ------------------------ *)

\* What HasPropertySets may hold: a property set (named or not) and, in a
\* file whose reference is malformed, an entity that has no Name at all.
NestedPropertySet(name) == [type |-> "IfcPropertySet", Name |-> name]

MalformedReference == [type |-> "IfcCartesianPoint", Name |-> None]

NestedSets ==
    {NestedPropertySet(n) : n \in {None, Some("Pset_A"), Some("Pset_B")}}
        \cup {MalformedReference}

IfcElementType(name, gid, psets) ==
    [type |-> "IfcWallType", Name |-> name, GlobalId |-> gid,
     HasPropertySets |-> psets]

TypeNames == {None, Some("WallType1")}

ElementTypes ==
    {IfcElementType(n, "2O2Fr$t4X7Zf8NOew3FNr2", ps) :
        n \in TypeNames, ps \in SeqsUpTo(NestedSets, MaxPsets)}

\* The comprehension's element keeping the first name written under a key.
TypeStepFirstWins(xx, y, st) ==
    IF ~HasAttr(y, "Name") THEN [st EXCEPT !.exc = "AttributeError"]
    ELSE IF y.Name = None THEN st
    ELSE IF xx.Name = None THEN [st EXCEPT !.exc = "TypeError"]
    ELSE IF Some("TypeDefinition_" \o xx.Name[1]) \in DOMAIN st.ret THEN st
    ELSE [st EXCEPT !.ret =
            Update(@, Some("TypeDefinition_" \o xx.Name[1]), y.Name)]

\* One element of the comprehension of line 133:
\*   type_attr_dicts.update({"TypeDefinition_" + x.Name: y.Name})
\*   for y in x.HasPropertySets if y.Name is not None
TypeStep(xx, y, st) ==
    IF ~HasAttr(y, "Name") THEN [st EXCEPT !.exc = "AttributeError"]
    ELSE IF y.Name = None THEN st
    ELSE IF xx.Name = None THEN [st EXCEPT !.exc = "TypeError"]
    ELSE [st EXCEPT !.ret =
            Update(@, Some("TypeDefinition_" \o xx.Name[1]), y.Name)]

RECURSIVE TypeLoop(_, _, _)
TypeLoop(xx, i, st) ==
    IF i > Len(xx.HasPropertySets) \/ st.exc # NoExc THEN st
    ELSE TypeLoop(xx, i + 1, TypeStep(xx, xx.HasPropertySets[i], st))

\* except: print("Type Value Exception for IfcGlobalID "+ x.GlobalId)
\* The handler ends the exception; type_attr_dicts is left as it is.
ExceptPrint(xx, st) ==
    [exc |-> NoExc, ret |-> st.ret,
     printed |-> Append(st.printed,
                        "Type Value Exception for IfcGlobalID " \o xx.GlobalId)]

get_type_single_value(xx) ==
    IF xx.HasPropertySets = <<>> THEN Return(EmptyDict)
    ELSE LET st == TypeLoop(xx, 1, Return(EmptyDict))
         IN IF st.exc # NoExc THEN ExceptPrint(xx, st) ELSE st

(* ---------------------------- the element ----------------------------- *)

IfcRelDefinesByProperties(def) ==
    [type |-> "IfcRelDefinesByProperties", RelatingPropertyDefinition |-> Some(def),
     RelatingType |-> None]

IfcRelDefinesByType(def) ==
    [type |-> "IfcRelDefinesByType", RelatingPropertyDefinition |-> None,
     RelatingType |-> Some(def)]

Bar5 == IfcPropertySingleValue(Some("Bar"), Some(IfcValue(Some("5"))))

Sub3 == IfcPropertySingleValue(Some("Sub1"), Some(IfcValue(Some("3"))))

\* The property definitions an element of the model may be related to.
RelatedPropertySets ==
    {IfcPropertySet(Some("Pset_Foo"), ps) :
        ps \in {<<Bar5>>, <<Sub3>>,
                <<IfcComplexProperty(Some("Complex1"),
                     <<UnsupportedProperty("IfcPropertyEnumeratedValue", Some("Bar"))>>)>>}}

RelatedQuantities ==
    {IfcElementQuantity(Some("Pset_Foo"), <<q>>) :
        q \in {IfcPhysicalQuantity("IfcQuantityArea", Some("Bar"), Some("12.5")),
               IfcPhysicalQuantity("IfcQuantityCount", Some("NetArea"), None)}}

OtherDefinitions ==
    {[type |-> "IfcDoorLiningProperties", Name |-> Some("Lining")]}

RelatedTypes ==
    {IfcElementType(Some("WallType1"), "2O2Fr$t4X7Zf8NOew3FNr2",
       <<NestedPropertySet(Some("Pset_A")), NestedPropertySet(Some("Pset_B"))>>),
     IfcElementType(Some("WallType2"), "2O2Fr$t4X7Zf8NOew3FNr2",
       <<NestedPropertySet(Some("Pset_A"))>>),
     IfcElementType(Some("WallType1"), "2O2Fr$t4X7Zf8NOew3FNr2",
       <<NestedPropertySet(None)>>),
     IfcElementType(None, "0kF3$uQ2b9yBqT4mZx1LpA",
       <<NestedPropertySet(Some("Pset_A"))>>),
     IfcElementType(Some("WallType1"), "0kF3$uQ2b9yBqT4mZx1LpA",
       <<NestedPropertySet(Some("Pset_B")), MalformedReference,
         NestedPropertySet(Some("Pset_A"))>>),
     IfcElementType(Some("WallType1"), "0kF3$uQ2b9yBqT4mZx1LpA",
       <<MalformedReference, NestedPropertySet(Some("Pset_A"))>>)}

Relationships ==
    {IfcRelDefinesByProperties(d) :
        d \in RelatedPropertySets \cup RelatedQuantities \cup OtherDefinitions}
      \cup {IfcRelDefinesByType(t) : t \in RelatedTypes}

IfcElement(rels) == [type |-> "IfcWall", IsDefinedBy |-> rels]

Elements == {IfcElement(rs) : rs \in SeqsUpTo(Relationships, MaxRels)}

(* ------------------------- the relation filters ----------------------- *)

\* [x.RelatingPropertyDefinition for x in rels if x.is_a("IfcRelDefinesByProperties")]
RECURSIVE RelatedPropertiesLoop(_, _, _)
RelatedPropertiesLoop(rels, i, list) ==
    IF i > Len(rels) THEN list
    ELSE RelatedPropertiesLoop(rels, i + 1,
            IF is_a(rels[i], "IfcRelDefinesByProperties")
            THEN Append(list, rels[i].RelatingPropertyDefinition[1])
            ELSE list)

get_related_properties(ifc_instance) ==
    Return(RelatedPropertiesLoop(ifc_instance.IsDefinedBy, 1, <<>>))

\* [x.RelatingType for x in rels if x.is_a("IfcRelDefinesByType")]
RECURSIVE RelatedTypeLoop(_, _, _)
RelatedTypeLoop(rels, i, list) ==
    IF i > Len(rels) THEN list
    ELSE RelatedTypeLoop(rels, i + 1,
            IF is_a(rels[i], "IfcRelDefinesByType")
            THEN Append(list, rels[i].RelatingType[1])
            ELSE list)

get_related_type_definition(ifc_instance) ==
    Return(RelatedTypeLoop(ifc_instance.IsDefinedBy, 1, <<>>))

\* The loops of get_related_property_sets and get_related_quantities, which
\* differ in the tag asked of the target only.
RECURSIVE RelatedLoop(_, _, _, _)
RelatedLoop(rels, tag, i, list) ==
    IF i > Len(rels) THEN list
    ELSE RelatedLoop(rels, tag, i + 1,
            IF is_a(rels[i], "IfcRelDefinesByProperties")
            THEN IF is_a(rels[i].RelatingPropertyDefinition[1], tag)
                 THEN Append(list, rels[i].RelatingPropertyDefinition[1])
                 ELSE list
            ELSE list)

\* get_related_property_sets without its test of the target's tag.
related_property_sets_unfiltered(ifc_instance) ==
    Return(RelatedPropertiesLoop(ifc_instance.IsDefinedBy, 1, <<>>))

get_related_property_sets(ifc_instance) ==
    Return(RelatedLoop(ifc_instance.IsDefinedBy, "IfcPropertySet", 1, <<>>))

get_related_quantities(ifc_instance) ==
    Return(RelatedLoop(ifc_instance.IsDefinedBy, "IfcElementQuantity", 1, <<>>))

(* --------------------------- the aggregators -------------------------- *)

\* A dictionary that starts with an entry of its own, as the docstrings'
\* {"IfcGlobalId": ...} would have it.
SeededDict == (Some("IfcGlobalId") :> Some("2O2Fr$t4X7Zf8NOew3FNr2"))

\* A dictionary shared by the calls (a module-level dict): it still holds
\* what the previous get_all_* call left in it.
LeakedDict == IF fn \in {"get_all_pset_data", "get_all_quantity_data",
                         "get_all_type_data", "get_all_instance_data"}
              THEN out.ret ELSE EmptyDict

\* pset_dict= {}
NewDict == EmptyDict

\* pset_dict.update(o) for the dictionary o a flattener returned; an
\* exception of the flattener leaves the aggregator too.
Merge(st, o) ==
    IF o.exc # NoExc
    THEN [st EXCEPT !.exc = o.exc, !.printed = @ \o o.printed]
    ELSE [st EXCEPT !.ret = DictUpdate(@, o.ret), !.printed = @ \o o.printed]

\* {pset_dict.update(get_property_single_value(x)) for x in sets}
RECURSIVE PsetDataLoop(_, _, _)
PsetDataLoop(sets, i, st) ==
    IF i > Len(sets) \/ st.exc # NoExc THEN st
    ELSE PsetDataLoop(sets, i + 1, Merge(st, get_property_single_value(sets[i])))

\* {pset_dict.update(get_quantity_single_value(x)) for x in sets}
RECURSIVE QuantityDataLoop(_, _, _)
QuantityDataLoop(sets, i, st) ==
    IF i > Len(sets) \/ st.exc # NoExc THEN st
    ELSE QuantityDataLoop(sets, i + 1, Merge(st, get_quantity_single_value(sets[i])))

\* {pset_dict.update(get_type_single_value(x)) for x in types}
RECURSIVE TypeDataLoop(_, _, _)
TypeDataLoop(types, i, st) ==
    IF i > Len(types) \/ st.exc # NoExc THEN st
    ELSE TypeDataLoop(types, i + 1, Merge(st, get_type_single_value(types[i])))

\* A stage of an aggregator: the relation filter is called, then the loop
\* runs over what it returned, unless an exception has already left the call.
PsetStage(ifc_instance, st) ==
    IF st.exc # NoExc THEN st
    ELSE PsetDataLoop(get_related_property_sets(ifc_instance).ret, 1, st)

QuantityStage(ifc_instance, st) ==
    IF st.exc # NoExc THEN st
    ELSE QuantityDataLoop(get_related_quantities(ifc_instance).ret, 1, st)

TypeStage(ifc_instance, st) ==
    IF st.exc # NoExc THEN st
    ELSE TypeDataLoop(get_related_type_definition(ifc_instance).ret, 1, st)

Finish(st) == IF st.exc # NoExc THEN Raise(st) ELSE st

get_all_quantity_data(ifc_instance) ==
    Finish(QuantityStage(ifc_instance, Return(NewDict)))

get_all_type_data(ifc_instance) ==
    Finish(TypeStage(ifc_instance, Return(NewDict)))

get_all_pset_data(ifc_instance) ==
    Finish(PsetStage(ifc_instance, Return(NewDict)))

\* get_all_instance_data with the quantities merged before the property sets.
instance_data_quantities_first(ifc_instance) ==
    Finish(TypeStage(ifc_instance,
             PsetStage(ifc_instance,
               QuantityStage(ifc_instance, Return(NewDict)))))

get_all_instance_data(ifc_instance) ==
    Finish(TypeStage(ifc_instance,
             QuantityStage(ifc_instance,
               PsetStage(ifc_instance, Return(NewDict)))))

(* ------------------------------ actions ------------------------------- *)

Extractors ==
    {"get_all_pset_data", "get_all_quantity_data", "get_all_type_data",
     "get_all_instance_data"}

RelationFilters ==
    {"get_related_properties", "get_related_type_definition",
     "get_related_property_sets", "get_related_quantities"}

NotCalled == [f \in Extractors |-> None]

\* The model is loaded before any function runs; a run calls the functions
\* on one element of it, or a flattener on one property definition.
Init ==
    /\ \/ kind = "IfcElement" /\ x \in Elements
       \/ kind = "IfcPropertySet" /\ x \in PropertySets
       \/ kind = "IfcElementQuantity" /\ x \in ElementQuantities
       \/ kind = "IfcElementType" /\ x \in ElementTypes
    /\ fn = ""
    /\ out = Return(EmptyDict)
    /\ returned = NotCalled
    /\ again = FALSE

\* A call of a function that keeps no record beyond its own result.
Call(name, result) ==
    /\ fn' = name
    /\ out' = result
    /\ again' = FALSE
    /\ UNCHANGED <<kind, x, returned>>

\* A call of an aggregator.
CallExtractor(name, result) ==
    /\ kind = "IfcElement"
    /\ fn' = name
    /\ out' = result
    /\ returned' = [returned EXCEPT ![name] = Some(result)]
    /\ again' = (returned[name] # None)
    /\ UNCHANGED <<kind, x>>

Call_get_property_single_value ==
    /\ kind = "IfcPropertySet"
    /\ Call("get_property_single_value", get_property_single_value(x))

Call_get_quantity_single_value ==
    /\ kind = "IfcElementQuantity"
    /\ Call("get_quantity_single_value", get_quantity_single_value(x))

Call_get_type_single_value ==
    /\ kind = "IfcElementType"
    /\ Call("get_type_single_value", get_type_single_value(x))

Call_get_related_properties ==
    /\ kind = "IfcElement"
    /\ Call("get_related_properties", get_related_properties(x))

Call_get_related_type_definition ==
    /\ kind = "IfcElement"
    /\ Call("get_related_type_definition", get_related_type_definition(x))

Call_get_related_property_sets ==
    /\ kind = "IfcElement"
    /\ Call("get_related_property_sets", get_related_property_sets(x))

Call_get_related_quantities ==
    /\ kind = "IfcElement"
    /\ Call("get_related_quantities", get_related_quantities(x))

Call_get_all_quantity_data ==
    CallExtractor("get_all_quantity_data", get_all_quantity_data(x))

Call_get_all_type_data ==
    CallExtractor("get_all_type_data", get_all_type_data(x))

Call_get_all_pset_data ==
    CallExtractor("get_all_pset_data", get_all_pset_data(x))

Call_get_all_instance_data ==
    CallExtractor("get_all_instance_data", get_all_instance_data(x))

Next ==
    \/ Call_get_property_single_value
    \/ Call_get_quantity_single_value
    \/ Call_get_type_single_value
    \/ Call_get_related_properties
    \/ Call_get_related_type_definition
    \/ Call_get_related_property_sets
    \/ Call_get_related_quantities
    \/ Call_get_all_quantity_data
    \/ Call_get_all_type_data
    \/ Call_get_all_pset_data
    \/ Call_get_all_instance_data

Spec == Init /\ [][Next]_vars


(* ------------------------------ claims -------------------------------- *)

Outcome(f) == returned[f][1]

AllCalled == \A f \in Extractors : returned[f] # None

\* C1: for every element, get_all_instance_data ends as get_all_pset_data
\* does and, when it returns, its map is get_all_pset_data's overwritten by
\* get_all_quantity_data's and then by get_all_type_data's: the key set is
\* the union of the three and on a collision the later category supplies
\* the value.
C1_InstanceDataIsMergeInOrder ==
    (kind = "IfcElement" /\ AllCalled) =>
        LET p == Outcome("get_all_pset_data")
            q == Outcome("get_all_quantity_data")
            t == Outcome("get_all_type_data")
            a == Outcome("get_all_instance_data")
        IN /\ q.exc = NoExc /\ t.exc = NoExc
           /\ a.exc = p.exc
           /\ a.exc = NoExc =>
                /\ DOMAIN a.ret = DOMAIN p.ret \cup DOMAIN q.ret \cup DOMAIN t.ret
                /\ \A k \in DOMAIN a.ret :
                     a.ret[k] = IF k \in DOMAIN t.ret THEN t.ret[k]
                                ELSE IF k \in DOMAIN q.ret THEN q.ret[k]
                                ELSE p.ret[k]

\* All four extractors have returned and a property and a quantity collide
\* on a key with different values.
C1_Witness ==
    /\ kind = "IfcElement" /\ AllCalled
    /\ Outcome("get_all_instance_data").exc = NoExc
    /\ \E k \in DOMAIN Outcome("get_all_pset_data").ret
              \cap DOMAIN Outcome("get_all_quantity_data").ret :
          Outcome("get_all_pset_data").ret[k] # Outcome("get_all_quantity_data").ret[k]

\* What the claims say of a property set's records.
SingleWithValue(r) ==
    r.type = "IfcPropertySingleValue" /\ r.NominalValue # None

Contribution(r) == <<r.Name, r.NominalValue[1].wrappedValue>>

NestedContributions(y) ==
    LET sel == SelectSeq(y.HasProperties, SingleWithValue)
    IN [i \in 1..Len(sel) |-> Contribution(sel[i])]

RECURSIVE ContributionsFrom(_, _)
ContributionsFrom(props, i) ==
    IF i > Len(props) THEN <<>>
    ELSE (IF SingleWithValue(props[i]) THEN <<Contribution(props[i])>>
          ELSE IF props[i].type = "IfcComplexProperty"
               THEN NestedContributions(props[i])
               ELSE <<>>)
         \o ContributionsFrom(props, i + 1)

\* The last-write-wins accumulation of a sequence of (name, value) under
\* the set's name.
Accumulated(setName, c) ==
    [k \in {<<setName, c[i][1]>> : i \in 1..Len(c)} |->
        LET last == CHOOSE i \in 1..Len(c) :
                        /\ <<setName, c[i][1]>> = k
                        /\ \A j \in (i + 1)..Len(c) : <<setName, c[j][1]>> # k
        IN c[last][2]]

\* C2: for every property set, get_property_single_value returns exactly
\* the last-write-wins accumulation, in record order, of (S.Name, r.Name) ->
\* wrapped value over the top-level single values and the single values
\* nested in complex properties whose value is present; a complex
\* property's own name is not the record part of a key it contributes.
C2_PropertyAccumulation ==
    fn = "get_property_single_value" =>
        /\ out.exc = NoExc
        /\ out.ret = Accumulated(x.Name, ContributionsFrom(x.HasProperties, 1))
        /\ \A i \in 1..Len(x.HasProperties) :
             LET y == x.HasProperties[i] IN
             (y.type = "IfcComplexProperty" /\ <<x.Name, y.Name>> \in DOMAIN out.ret)
                => \E c \in {ContributionsFrom(x.HasProperties, 1)} :
                      \E j \in 1..Len(c) : c[j][1] = y.Name

\* The accumulation C2 states is what the function returns whenever it
\* returns at all (C2 fails only where the call raises, see C6).
PropertyAccumulationWhenReturned ==
    (fn = "get_property_single_value" /\ out.exc = NoExc) =>
        out.ret = Accumulated(x.Name, ContributionsFrom(x.HasProperties, 1))

KnownQuantity(r) == r.type \in QuantityTags

\* The scalar field the claim pairs with each variant tag.
MatchingField(type) ==
    CASE type = "IfcQuantityArea" -> "AreaValue"
      [] type = "IfcQuantityLength" -> "LengthValue"
      [] type = "IfcQuantityVolume" -> "VolumeValue"
      [] type = "IfcQuantityCount" -> "CountValue"
      [] type = "IfcQuantityWeight" -> "WeightValue"

QuantityKeys ==
    {<<x.Name, x.Quantities[i].Name>> :
        i \in {j \in 1..Len(x.Quantities) : KnownQuantity(x.Quantities[j])}}

\* C3 as stated: for every record r of a quantity set,
\* get_quantity_single_value maps (Q.Name, r.Name) to the field matching
\* r's variant tag; a record of any other tag contributes no key and
\* causes no error.
C3_EveryRecordMapsToItsField ==
    fn = "get_quantity_single_value" =>
        /\ out.exc = NoExc
        /\ DOMAIN out.ret = QuantityKeys
        /\ \A i \in 1..Len(x.Quantities) :
             LET r == x.Quantities[i] IN
             KnownQuantity(r) =>
                out.ret[<<x.Name, r.Name>>] = r.attrs[MatchingField(r.type)]

\* C3 as amended: for every record r of one of the five variants that is
\* the last such record of its name in Q.Quantities, the map holds under
\* (Q.Name, r.Name) the field matching r's variant tag; its keys are those of
\* the records of the five variants, a record of any other tag contributes
\* no key, and the call raises nothing.
C3_LastRecordOfANameMapsToItsField ==
    fn = "get_quantity_single_value" =>
        /\ out.exc = NoExc
        /\ DOMAIN out.ret = QuantityKeys
        /\ \A i \in 1..Len(x.Quantities) :
             LET r == x.Quantities[i] IN
             (/\ KnownQuantity(r)
              /\ \A j \in (i + 1)..Len(x.Quantities) :
                    KnownQuantity(x.Quantities[j]) => x.Quantities[j].Name # r.Name)
                => out.ret[<<x.Name, r.Name>>] = r.attrs[MatchingField(r.type)]

\* Two records of one name and of different variants and values, flattened.
C3_Witness ==
    /\ fn = "get_quantity_single_value"
    /\ Len(x.Quantities) = 2
    /\ x.Quantities[1].Name = x.Quantities[2].Name
    /\ x.Quantities[1].type = "IfcQuantityArea"
    /\ x.Quantities[2].type = "IfcQuantityCount"
    /\ x.Quantities[1].attrs["AreaValue"] # x.Quantities[2].attrs["CountValue"]
    /\ out.ret[<<x.Name, x.Quantities[2].Name>>] = x.Quantities[2].attrs["CountValue"]

IsByType(r) == r.type = "IfcRelDefinesByType"

\* The element's related types, in relationship order.
RelatedTypeSeq ==
    LET sel == SelectSeq(x.IsDefinedBy, IsByType)
    IN [i \in 1..Len(sel) |-> sel[i].RelatingType[1]]

Max(S) == CHOOSE m \in S : \A n \in S : n <= m

\* The places of a type's nested property sets whose name is present.
NamedSets(T) ==
    {i \in 1..Len(T.HasPropertySets) :
        /\ T.HasPropertySets[i].type = "IfcPropertySet"
        /\ T.HasPropertySets[i].Name # None}

\* Those of them that no entity without a Name precedes.
EmittedSets(T) ==
    {i \in NamedSets(T) :
        \A j \in 1..(i - 1) : T.HasPropertySets[j].type = "IfcPropertySet"}

TypeKey(T) == Some("TypeDefinition_" \o T.Name[1])

FaultArises(T) ==
    \E i \in 1..Len(T.HasPropertySets) :
        \/ T.HasPropertySets[i].type # "IfcPropertySet"
        \/ T.HasPropertySets[i].Name # None /\ T.Name = None

\* C5: whenever a fault arises in get_type_single_value, at any position of
\* the nested collection, it is not propagated, the type's GlobalId is
\* reported and the map returned is empty.
C5_FaultYieldsEmptyMap ==
    (fn = "get_type_single_value" /\ FaultArises(x)) =>
        /\ out.exc = NoExc
        /\ out.printed = <<"Type Value Exception for IfcGlobalID " \o x.GlobalId>>
        /\ DOMAIN out.ret = {}

\* What does hold of a fault: it is caught and the GlobalId is printed.
FaultIsCaughtAndReported ==
    (fn = "get_type_single_value" /\ FaultArises(x)) =>
        /\ out.exc = NoExc
        /\ out.printed = <<"Type Value Exception for IfcGlobalID " \o x.GlobalId>>

\* C6: get_property_single_value and get_all_pset_data never raise; a
\* record that is neither a single value nor a complex property, at the top
\* level or nested in a complex property, is skipped and contributes no key.
C6_UnsupportedRecordsAreSkipped ==
    /\ fn = "get_property_single_value" =>
        /\ out.exc = NoExc
        /\ \A k \in DOMAIN out.ret :
             \E c \in {ContributionsFrom(x.HasProperties, 1)} :
                \E j \in 1..Len(c) : k = <<x.Name, c[j][1]>>
    /\ fn = "get_all_pset_data" => out.exc = NoExc

\* C7: on an element whose IsDefinedBy is empty every extractor returns an
\* empty map, every relation filter an empty sequence, and none raises.
C7_NoRelationshipsNothingReturned ==
    (kind = "IfcElement" /\ x.IsDefinedBy = <<>>) =>
        /\ fn # "" => (out.exc = NoExc /\ DOMAIN out.ret = {})
        /\ \A f \in Extractors :
             returned[f] # None =>
                (Outcome(f).exc = NoExc /\ DOMAIN Outcome(f).ret = {})

\* The four extractors, then a relation filter, called on such an element.
C7_Witness ==
    /\ kind = "IfcElement" /\ x.IsDefinedBy = <<>>
    /\ AllCalled
    /\ fn \in RelationFilters

\* C8: no extractor returns a map in which a key maps to None.
C8_NoNullValue ==
    fn \in Extractors => \A k \in DOMAIN out.ret : out.ret[k] # None

TargetIs(tag, r) ==
    /\ r.type = "IfcRelDefinesByProperties"
    /\ r.RelatingPropertyDefinition[1].type = tag

\* The targets of the by-properties relationships whose target has the tag,
\* one per relationship, in IsDefinedBy order.
TargetsTagged(tag) ==
    LET Test(r) == TargetIs(tag, r)
        sel == SelectSeq(x.IsDefinedBy, Test)
    IN [i \in 1..Len(sel) |-> sel[i].RelatingPropertyDefinition[1]]

\* C9: get_related_property_sets returns exactly the targets tagged
\* IfcPropertySet of the IfcRelDefinesByProperties relationships, one per
\* relationship and in IsDefinedBy order; get_related_quantities the same
\* with IfcElementQuantity; neither holds a definition of another kind.
C9_RelationFiltersSelectByTag ==
    /\ fn = "get_related_property_sets" =>
        /\ out = Return(TargetsTagged("IfcPropertySet"))
        /\ \A i \in 1..Len(out.ret) : out.ret[i].type = "IfcPropertySet"
    /\ fn = "get_related_quantities" =>
        /\ out = Return(TargetsTagged("IfcElementQuantity"))
        /\ \A i \in 1..Len(out.ret) : out.ret[i].type = "IfcElementQuantity"

\* A quantity set and then a property set are related, and the filter for
\* property sets has returned the second alone.
C9_Witness ==
    /\ kind = "IfcElement" /\ fn = "get_related_property_sets"
    /\ Len(x.IsDefinedBy) = 2
    /\ TargetIs("IfcElementQuantity", x.IsDefinedBy[1])
    /\ TargetIs("IfcPropertySet", x.IsDefinedBy[2])
    /\ out.ret = <<x.IsDefinedBy[2].RelatingPropertyDefinition[1]>>

====
